---- MODULE Spec2Model ----
(***************************************************************************)
(* Model of the question-answering pipeline of ppl-peoplesay-ai:           *)
(*   core_logic.process_query          (orchestrator)                      *)
(*   llm_inference.generate_sql_from_query    (synthesizer)                *)
(*   db_handler.execute_sql_query             (executor)                   *)
(*   llm_inference.generate_summary_from_data (summarizer)                 *)
(* The generative oracle and the SQLite store are stubs whose answers for  *)
(* one invocation are fixed when the invocation starts (variable env).     *)
(***************************************************************************)
EXTENDS Integers, Sequences, FiniteSets, TLC

\* ------------------------------------------------------------------------
\* Bounds of the model
\* ------------------------------------------------------------------------
\* the longest result set the store answers with; entities are 1..MaxRows
MaxRows == 3

\* ------------------------------------------------------------------------
\* Python values.  Every value is a record with the same two fields, so that
\* values of different Python types can be compared.
\* A str is a sequence of characters; a string literal of the program that
\* no string operation ever looks into is a sequence of one chunk.
\* ------------------------------------------------------------------------
None == [t |-> "None", v |-> <<>>]
Str(s) == [t |-> "str", v |-> s]
List(l) == [t |-> "list", v |-> l]
Tuple(l) == [t |-> "tuple", v |-> l]
IntVal(n) == [t |-> "int", v |-> n]
DF(d) == [t |-> "df", v |-> d]

\* Python truth value of x (if x, not x)
Truthy(x) ==
    CASE x.t = "None" -> FALSE
      [] x.t = "int" -> x.v # 0
      [] x.t = "df" -> TRUE
      [] OTHER -> Len(x.v) > 0

IsStr(x) == x.t = "str"

\* Outcome of a call: it returns a value or raises an exception
Return(val) == [kind |-> "return", val |-> val]
Raise(exc) == [kind |-> "raise", val |-> Str(<<exc>>)]

\* ------------------------------------------------------------------------
\* Strings
\* ------------------------------------------------------------------------
Whitespace == {" ", "\n"}

UpperChar(c) ==
    CASE c = "s" -> "S"
      [] c = "e" -> "E"
      [] c = "l" -> "L"
      [] c = "c" -> "C"
      [] c = "t" -> "T"
      [] c = "q" -> "Q"
      [] OTHER -> c

\* str.upper()
UpperStr(s) == [i \in 1..Len(s) |-> UpperChar(s[i])]

RECURSIVE LStrip(_)
LStrip(s) ==
    IF Len(s) > 0 /\ s[1] \in Whitespace THEN LStrip(Tail(s)) ELSE s

RECURSIVE RStrip(_)
RStrip(s) ==
    IF Len(s) > 0 /\ s[Len(s)] \in Whitespace
    THEN RStrip(SubSeq(s, 1, Len(s) - 1))
    ELSE s

\* str.strip()
Strip(s) == RStrip(LStrip(s))

\* pat in s
Contains(s, pat) ==
    \E i \in 1..(Len(s) - Len(pat) + 1) : SubSeq(s, i, i + Len(pat) - 1) = pat

\* the backtick character (written by name: the lexer rejects it in a string)
BACKTICK == "<backtick>"
FENCE == <<BACKTICK, BACKTICK, BACKTICK>>
SELECT == <<"S", "E", "L", "E", "C", "T">>

\* re.sub, ignoring case: an opening fence with the tag sql at the start of s,
\* and the whitespace after it, is removed
SubFenceOpen(s) ==
    IF /\ Len(s) >= 6
       /\ SubSeq(s, 1, 3) = FENCE
       /\ UpperStr(SubSeq(s, 4, 6)) = <<"S", "Q", "L">>
    THEN LStrip(SubSeq(s, 7, Len(s)))
    ELSE s

\* re.sub: a fence at the end of s, and the whitespace before it, is removed
SubFenceClose(s) ==
    IF Len(s) >= 3 /\ SubSeq(s, Len(s) - 2, Len(s)) = FENCE
    THEN RStrip(SubSeq(s, 1, Len(s) - 3))
    ELSE s

\* the response processing of generate_sql_from_query
CleanSql(text) == Strip(SubFenceClose(SubFenceOpen(Strip(text))))

\* "SELECT" in s.upper()
HasSelect(s) == Contains(UpperStr(s), SELECT)

\* ------------------------------------------------------------------------
\* Fixed messages of the program
\* ------------------------------------------------------------------------
MSG_NO_QUERY == Str(<<"Error: Could not generate the database query.">>)
MSG_NO_DATA == Str(<<"No data found matching your query.">>)
MSG_NO_SUMMARY == Str(<<"Error: Could not generate the summary from the retrieved data.">>)
MSG_NO_KEY == Str(<<"API key error: Please provide a valid API key.">>)
MSG_BAD_KEY == Str(<<"API key error: Failed to authenticate with the provided key.">>)
MSG_NO_ROWS == Str(<<"No relevant data found to summarize.">>)
MSG_NOT_PREPARED == Str(<<"Could not prepare data for summarization.">>)
MSG_EMPTY_SUMMARY == Str(<<"The AI failed to generate a summary based on the data.">>)

\* f"Internal Error: Data processing failed (missing columns: {missing})."
MsgMissing(missing) ==
    Str(<<"Internal Error: Data processing failed (missing columns: ">>
        \o missing \o <<").">>)

\* f"An error occurred while generating the summary: {e}"
MsgSummaryError(e) ==
    Str(<<"An error occurred while generating the summary: ", e>>)

\* ------------------------------------------------------------------------
\* DataFrames: a set of columns, a number of rows, and one sequence of cells
\* per column
\* ------------------------------------------------------------------------
Cell(e, c) == <<c, e>>

MkDF(cols, ids) ==
    [columns |-> cols, n |-> Len(ids),
     data |-> [c \in cols |-> [i \in 1..Len(ids) |-> Cell(ids[i], c)]]]

\* pd.DataFrame()
EmptyDF == MkDF({}, <<>>)

\* a frame with columns and no rows is not taken for empty
DfEmpty_ColumnsOnly(d) == d.columns = {}

\* DataFrame.empty
DfEmpty(d) == d.n = 0 \/ d.columns = {}

\* the rows are collected last to first
RowDicts_Reversed(d) == [i \in 1..d.n |-> [c \in d.columns |-> d.data[c][d.n + 1 - i]]]

\* [row.to_dict() for index, row in df.iterrows()]
RowDicts(d) == [i \in 1..d.n |-> [c \in d.columns |-> d.data[c][i]]]

REQUIRED_COLUMNS == <<"data_unit", "data_unit_title", "participant_name">>

\* only the first missing column is reported
MissingColumns_FirstOnly(d) ==
    LET missing == SelectSeq(REQUIRED_COLUMNS, LAMBDA c : c \notin d.columns)
    IN  IF missing = <<>> THEN <<>> ELSE <<missing[1]>>

\* [col for col in required_columns if col not in df.columns]
MissingColumns(d) ==
    SelectSeq(REQUIRED_COLUMNS, LAMBDA c : c \notin d.columns)

\* ------------------------------------------------------------------------
\* Inputs and stubs
\* ------------------------------------------------------------------------
QUESTION == Str(<<"What do older adults say about dental care access?">>)
Questions == {None, Str(<<>>), QUESTION}

VALID_KEY == Str(<<"valid-key">>)
REVOKED_KEY == Str(<<"revoked-key">>)
ApiKeys == {None, VALID_KEY, REVOKED_KEY}
\* the keys the oracle's endpoint accepts
\* the key another session of the server entered
PEER_KEY == Str(<<"peer-key">>)
ValidKeys == {VALID_KEY, PEER_KEY}

THEMATIC == Str(<<"Thematic Analysis">>)
NARRATIVE == Str(<<"Narrative Analysis">>)
DEMOGRAPHIC == Str(<<"Demographic Comparison">>)
POLICY == Str(<<"Policy Implications">>)
SUMMARY_TEMPLATES == {THEMATIC, NARRATIVE, DEMOGRAPHIC, POLICY}
DEFAULT_SUMMARY_TEMPLATE == THEMATIC
Modes == SUMMARY_TEMPLATES \cup {Str(<<"Sentiment Analysis">>)}

\* result sets the store can answer with
FULL_COLUMNS == {"entry_id", "data_unit", "data_unit_title", "participant_name", "age"}
ColumnSets ==
    {FULL_COLUMNS, {"entry_id", "data_unit", "participant_name"},
     {"entry_id", "data_unit_title"}, {"entry_id", "age"}}
\* rows of distinct entities, in any order
IdSeqs ==
    {ids \in UNION {[1..k -> 1..MaxRows] : k \in 0..MaxRows} :
        \A i, j \in DOMAIN ids : ids[i] = ids[j] => i = j}
DataFrames == {MkDF(cols, ids) : cols \in ColumnSets, ids \in IdSeqs}
\* the result sets the store stub of a pipeline invocation answers with
StoreFrames ==
    {MkDF(cols, ids) : cols \in {FULL_COLUMNS, {"entry_id", "data_unit", "participant_name"}},
                       ids \in IdSeqs}

\* the store for one invocation: is the file there, does connecting work,
\* and what does running a query give (an exception or a result set)
StoreStub(exists, connects, exc, df) ==
    [exists |-> exists, connects |-> connects, exc |-> exc, df |-> df]
QueryErrors == {"DatabaseError", "sqlite3.Error", "ValueError"}
StoreStubs ==
    {StoreStub(FALSE, FALSE, "none", EmptyDF), StoreStub(TRUE, FALSE, "none", EmptyDF)}
    \cup {StoreStub(TRUE, TRUE, x, EmptyDF) : x \in QueryErrors}
    \cup {StoreStub(TRUE, TRUE, "none", d) : d \in StoreFrames}

\* the oracle for one invocation: generate_content raises, or response.text
OracleStub(raises, text) == [raises |-> raises, text |-> text]
SQL_UPPER == <<"S", "E", "L", "E", "C", "T", " ", "x">>
SQL_LOWER == <<"s", "e", "l", "e", "c", "t", " ", "x">>
SQL_DROP == <<"D", "R", "O", "P", " ", "x">>
FENCE_SQL == FENCE \o <<"s", "q", "l", "\n">>
FENCE_BARE == FENCE \o <<"\n">>
FENCE_END == <<"\n">> \o FENCE
SqlPrefixes == {<<>>, <<" ">>, FENCE_SQL, FENCE \o <<"S", "Q", "L", " ">>, FENCE_BARE}
SqlBodies ==
    {SQL_UPPER, SQL_LOWER, SQL_DROP, <<"S", "E", "L", " ", "E", "C", "T">>, <<>>}
SqlSuffixes == {<<>>, FENCE_END, FENCE_END \o <<"\n">>}
\* the texts the oracle stub of a synthesize call answers with
SqlTexts == {p \o b \o x : p \in SqlPrefixes, b \in SqlBodies, x \in SqlSuffixes}
SqlStubs == {OracleStub(TRUE, <<>>)} \cup {OracleStub(FALSE, t) : t \in SqlTexts}
\* the texts the oracle stub of a pipeline invocation answers with
PipelineSqlTexts ==
    {SQL_UPPER, FENCE_SQL \o SQL_LOWER \o FENCE_END, FENCE_BARE \o SQL_UPPER \o FENCE_END,
     SQL_DROP, <<>>}
PipelineSqlStubs ==
    {OracleStub(TRUE, <<>>)} \cup {OracleStub(FALSE, t) : t \in PipelineSqlTexts}
SummaryTexts ==
    {<<>>, <<" ", "\n">>, <<"Access is hard [Title 1]">>,
     <<"\n", "Access is hard [Title 1]", " ">>}
SummaryStubs == {OracleStub(TRUE, <<>>)} \cup {OracleStub(FALSE, t) : t \in SummaryTexts}
Networks == {"up", "down"}

Env(net, sql, store, summary) ==
    [net |-> net, sql |-> sql, store |-> store, summary |-> summary]
NoEnv ==
    Env("up", OracleStub(TRUE, <<>>), StoreStub(FALSE, FALSE, "none", EmptyDF),
        OracleStub(TRUE, <<>>))

\* ------------------------------------------------------------------------
\* database_init.initialize_database: the source file and the store
\* ------------------------------------------------------------------------
MaxItems == 2

Bool(b) == [t |-> "bool", v |-> b]

\* pd.isna / pd.notna on a cell
IsNa(x) == x = None

COMMA == ","
QUOTE == "<quote>"
\* the one quoted entry smart_split rewrites, and what it becomes
DENTAL_QUOTED ==
    <<QUOTE, "Dental", COMMA, " ", "Vision", COMMA, " ", "and Hearing Care [5]", QUOTE>>
DENTAL_FIXED == <<"Dental Vision and Hearing Care [5]">>

\* str.replace(old, new)
RECURSIVE Replace(_, _, _)
Replace(s, old, new) ==
    IF Len(s) < Len(old) THEN s
    ELSE IF SubSeq(s, 1, Len(old)) = old
    THEN new \o Replace(SubSeq(s, Len(old) + 1, Len(s)), old, new)
    ELSE <<s[1]>> \o Replace(Tail(s), old, new)

\* str.split(sep)
RECURSIVE Split(_, _)
Split(s, sep) ==
    IF \A i \in DOMAIN s : s[i] # sep THEN <<s>>
    ELSE LET i == CHOOSE k \in DOMAIN s : s[k] = sep /\ \A j \in 1..(k - 1) : s[j] # sep
         IN  <<SubSeq(s, 1, i - 1)>> \o Split(SubSeq(s, i + 1, Len(s)), sep)

StrList(items) == List([i \in DOMAIN items |-> Str(items[i])])

\* the items are not stripped
smart_split_NoStrip(text) ==
    IF IsNa(text) THEN List(<<>>)
    ELSE LET items == Split(Replace(text.v, DENTAL_QUOTED, DENTAL_FIXED), COMMA)
         IN  StrList(SelectSeq(items, LAMBDA item : item # <<>>))

\* smart_split of initialize_database
smart_split(text) ==
    IF IsNa(text) THEN List(<<>>)
    ELSE LET parts == Split(Replace(text.v, DENTAL_QUOTED, DENTAL_FIXED), COMMA)
             items == [i \in DOMAIN parts |-> Strip(parts[i])]
         IN  StrList(SelectSeq(items, LAMBDA item : item # <<>>))

\* Series.str.split(',') on one cell: NaN stays NaN
str_split(text) ==
    IF IsNa(text) THEN None ELSE StrList(Split(text.v, COMMA))

\* the multi-valued columns: source column, list column, link table
LinkSpec(source, field, table) == [source |-> source, field |-> field, table |-> table]
LINK_TABLES ==
    <<LinkSpec("Subtopics [web]", "subtopics_list", "subtopics_table"),
      LinkSpec("Topics [web]", "topics_list", "topics_table"),
      LinkSpec("Common Topics [web]", "common_topics_list", "common_topics_table"),
      LinkSpec("Data Type [web]", "data_type_list", "data_type_table"),
      LinkSpec("Insurance [web]", "insurance_list", "insurance_table"),
      LinkSpec("Race/Ethnicity [web]", "race_ethnicity_list", "race_ethnicity_table")>>
SOURCE_COLUMNS == {LINK_TABLES[i].source : i \in DOMAIN LINK_TABLES}
MAIN_TABLE == "peoplesay"
TABLES == {MAIN_TABLE} \cup {LINK_TABLES[i].table : i \in DOMAIN LINK_TABLES}

\* df[field] for one source row
ListOf(row, link) ==
    IF link.field = "subtopics_list"
    THEN smart_split(row[link.source])
    ELSE str_split(row[link.source])

\* the .str accessor raises on a column that holds no string at all
StrAccessorFails(rows) ==
    /\ rows # <<>>
    /\ \E k \in DOMAIN LINK_TABLES :
         /\ LINK_TABLES[k].field # "subtopics_list"
         /\ \A i \in DOMAIN rows : IsNa(rows[i][LINK_TABLES[k].source])

\* DataFrame.explode on one row: an empty list and NaN give one NaN row
Explode(entry_id, lst) ==
    IF IsNa(lst) \/ lst.v = <<>> THEN <<<<entry_id, None>>>>
    ELSE [i \in DOMAIN lst.v |-> <<entry_id, lst.v[i]>>]

RECURSIVE Flatten(_)
Flatten(ss) == IF ss = <<>> THEN <<>> ELSE Head(ss) \o Flatten(Tail(ss))

\* the NaN rows of explode are written too
AuxRows_KeepNa(rows, link) ==
    Flatten([i \in DOMAIN rows |-> Explode(i, ListOf(rows[i], link))])

\* the rows written to a link table: exploded, NaN rows dropped; entry_id is
\* range(1, len(df) + 1)
AuxRows(rows, link) ==
    SelectSeq(Flatten([i \in DOMAIN rows |-> Explode(i, ListOf(rows[i], link))]),
              LAMBDA r : ~IsNa(r[2]))

\* the rows written to the primary table, by entry_id
MainRows(rows) == [i \in DOMAIN rows |-> i]

\* the store file: does it exist with content, and its tables
Table(rows) == [present |-> TRUE, rows |-> rows]
NoTable == [present |-> FALSE, rows |-> <<>>]
NoStore == [file |-> FALSE, tables |-> [t \in TABLES |-> NoTable]]
\* DataFrame.to_sql(table, if_exists='replace')
ToSql(d, table, rows) ==
    [file |-> TRUE, tables |-> [d.tables EXCEPT ![table] = Table(rows)]]

\* source cells: k values written with commas between them, more or less padded
WORD_A == "Access to Care [5]"
WORD_B == "Ageism [7]"
Words == {WORD_A, WORD_B}
ValueLists == UNION {[1..k -> Words] : k \in 1..MaxItems}
Pad(first, lead, trail) == [first |-> first, lead |-> lead, trail |-> trail]
Pads == {Pad(<<>>, <<>>, <<>>), Pad(<<>>, <<" ">>, <<>>), Pad(<<" ">>, <<" ">>, <<" ", "\n">>)}
RECURSIVE JoinFrom(_, _, _)
JoinFrom(vals, pad, i) ==
    IF i > Len(vals) THEN <<>>
    ELSE (IF i = 1 THEN pad.first ELSE <<COMMA>> \o pad.lead)
         \o <<vals[i]>> \o pad.trail \o JoinFrom(vals, pad, i + 1)
JoinPadded(vals, pad) == JoinFrom(vals, pad, 1)

SUB_EXAMPLE == Str(<<WORD_A, COMMA, " ", WORD_B>>)
PLAIN_AB == Str(<<"A", COMMA, " ", "B">>)
SubtopicCells ==
    {None, Str(<<"A", COMMA, COMMA, "B">>), Str(DENTAL_QUOTED \o <<COMMA, " ", WORD_B>>)}
    \cup {Str(JoinPadded(v, p)) : v \in ValueLists, p \in Pads}
PlainCells == {None, Str(<<"A">>), PLAIN_AB, Str(<<"A", COMMA, COMMA, "B">>)}
Row(s, p) == [c \in SOURCE_COLUMNS |-> IF c = "Subtopics [web]" THEN s ELSE p]
CsvRows ==
    {Row(c, PLAIN_AB) : c \in SubtopicCells} \cup {Row(SUB_EXAMPLE, c) : c \in PlainCells}
FILLER == Row(None, Str(<<"A">>))
\* data/ppl_peoplesay.csv: missing, or its rows
CsvFiles ==
    {None, List(<<>>)}
    \cup {List(<<r>>) : r \in CsvRows}
    \cup {List(<<FILLER, r>>) : r \in CsvRows}
    \cup {List(<<r, FILLER>>) : r \in CsvRows}

\* ------------------------------------------------------------------------
\* State
\* ------------------------------------------------------------------------
VARIABLES
    top,        \* the function the caller invoked, "none" when idle
    pc,         \* position of the running invocation
    args,       \* the arguments of the caller's call
    env,        \* the oracle and store stubs of this invocation
    proc,       \* locals of process_query
    frame,      \* locals of the stage function that is running
    retval,     \* outcome of the stage function that just finished
    result,     \* outcome of the caller's call
    genaiKey,   \* the key the genai SDK is configured with (process-wide)
    openConns,  \* number of open store connections
    trace,      \* what this invocation did: stage calls, probes, generations
    db,         \* the store file peoplesay.db
    csv,        \* the source file data/ppl_peoplesay.csv
    ing,        \* locals of initialize_database
    prev,       \* an earlier process invocation: its inputs and its outcome
    peer        \* another session of the same server process

vars ==
    <<top, pc, args, env, proc, frame, retval, result, genaiKey, openConns, trace,
      db, csv, ing, prev, peer>>

\* the variables of the sessions: unchanged by every step of one invocation
sessions == <<prev, peer>>

NoIng == [force_rebuild |-> FALSE, i |-> 0, before |-> NoStore]

NoResult == [kind |-> "none", val |-> None]
NoArgs ==
    [question |-> None, mode |-> None, api_key |-> None, kwargs |-> {},
     query |-> None, df |-> EmptyDF]
NoProc == [user_query |-> None, sql_query |-> None]
NoPrev == [set |-> FALSE, args |-> NoArgs, env |-> NoEnv, result |-> NoResult]
NoPeer == [pc |-> "idle", key |-> None, used |-> None]

Frame(fn, q, key, template, query, df) ==
    [fn |-> fn, user_query |-> q, api_key |-> key, template_key |-> template,
     sql_query |-> query, df |-> df, conn |-> FALSE, pending |-> NoResult]
NoFrame == Frame("none", None, None, None, None, EmptyDF)

\* generate_sql_from_query(user_query, api_key=None, model_name=None)
SynthFrame(q, key) == Frame("synthesize", q, key, None, None, EmptyDF)
\* execute_sql_query(sql_query)
ExecFrame(query) == Frame("execute", None, None, None, query, EmptyDF)
\* generate_summary_from_data(user_query, retrieved_data_df,
\*     template_key="Thematic Analysis", api_key=None, model_name=None)
SummFrame(q, df, template, key) == Frame("summarize", q, key, template, None, df)

EntryPc(fn) ==
    CASE fn = "synthesize" -> "s_config"
      [] fn = "execute" -> "x_validate"
      [] fn = "summarize" -> "m_config"

\* an event of the trace: a stage call (info: the template key it was given),
\* a credential probe (info: ok or rejected), a generation call of the oracle
\* (key: the key the SDK is configured with; info: the template selected),
\* a stage's return (info: the value returned)
Event(ev, fn, key, info) == [ev |-> ev, fn |-> fn, key |-> key, info |-> info]
CallEvent(f) == Event("call", f.fn, f.api_key, f.template_key)
ReturnEvent(f, out) ==
    Event("return", f.fn, None, IF out.kind = "return" THEN out.val ELSE Str(<<"raised">>))

Init ==
    /\ top = "none"
    /\ pc = "idle"
    /\ args = NoArgs
    /\ env = NoEnv
    /\ proc = NoProc
    /\ frame = NoFrame
    /\ retval = NoResult
    /\ result = NoResult
    /\ genaiKey = None
    /\ openConns = 0
    /\ trace = <<>>
    /\ db = NoStore
    /\ csv = None
    /\ ing = NoIng
    /\ prev = NoPrev
    /\ peer = NoPeer

\* ------------------------------------------------------------------------
\* The caller: one invocation at a time, each with its own stubs
\* ------------------------------------------------------------------------
Envs ==
    {Env(n, q, s, m) : n \in Networks, q \in PipelineSqlStubs, s \in StoreStubs,
                       m \in SummaryStubs}

Invoke(fn, a, e, f) ==
    /\ top' = fn
    /\ args' = a
    /\ env' = e
    /\ frame' = f
    /\ pc' = IF fn = "process" THEN "p_bind" ELSE EntryPc(fn)
    /\ trace' = IF fn = "process" THEN <<>> ELSE <<CallEvent(f)>>
    /\ UNCHANGED <<proc, retval, result, genaiKey, openConns, db, csv, ing, sessions>>

\* core_logic.process_query(user_query)
CallProcess ==
    /\ pc = "idle"
    /\ \E q \in Questions \ {None}, e \in Envs :
        Invoke("process", [NoArgs EXCEPT !.question = q], e, NoFrame)

\* app.py: core_logic.process_query(user_query, template_key=..., api_key=...)
CallProcessFromApp ==
    /\ pc = "idle"
    /\ \E q \in Questions \ {None}, m \in SUMMARY_TEMPLATES, k \in ApiKeys, e \in Envs :
        Invoke("process",
               [NoArgs EXCEPT !.question = q, !.mode = m, !.api_key = k,
                              !.kwargs = {"template_key", "api_key"}],
               e, NoFrame)

CallSynthesize ==
    /\ pc = "idle"
    /\ \E q \in Questions, k \in ApiKeys, n \in Networks, o \in SqlStubs :
        Invoke("synthesize",
               [NoArgs EXCEPT !.question = q, !.api_key = k],
               [NoEnv EXCEPT !.net = n, !.sql = o],
               SynthFrame(q, k))

QueryArgs == {None, IntVal(0), IntVal(7), Str(<<>>)} \cup {Str(t) : t \in SqlTexts}

CallExecute ==
    /\ pc = "idle"
    /\ \E x \in QueryArgs, s \in StoreStubs :
        Invoke("execute",
               [NoArgs EXCEPT !.query = x],
               [NoEnv EXCEPT !.store = s],
               ExecFrame(x))

CallSummarize ==
    /\ pc = "idle"
    /\ \E q \in Questions, d \in DataFrames \cup {EmptyDF}, m \in Modes, k \in ApiKeys,
       n \in Networks, o \in SummaryStubs :
        Invoke("summarize",
               [NoArgs EXCEPT !.question = q, !.df = d, !.mode = m, !.api_key = k],
               [NoEnv EXCEPT !.net = n, !.summary = o],
               SummFrame(q, d, m, k))

\* the caller takes the outcome; the next invocation starts from scratch,
\* except for the process-wide state
Reset ==
    /\ pc = "done"
    /\ top' = "none"
    /\ pc' = "idle"
    /\ args' = NoArgs
    /\ env' = NoEnv
    /\ proc' = NoProc
    /\ frame' = NoFrame
    /\ retval' = NoResult
    /\ result' = NoResult
    /\ trace' = <<>>
    /\ ing' = NoIng
    /\ UNCHANGED <<genaiKey, openConns, db, csv, sessions>>

\* a stage function finishes with outcome out
Finish(out) ==
    /\ retval' = out
    /\ pc' = "ret"

\* ------------------------------------------------------------------------
\* llm_inference: credential check
\* ------------------------------------------------------------------------
\* config.GOOGLE_API_KEY: os.getenv of a variable that is not set
GOOGLE_API_KEY == None

\* verify_google_api_key: True on status 200; False on any other status and
\* on any exception of the request
VerifyGoogleApiKey(key, net) == net = "up" /\ key \in ValidKeys

\* what the probe of the endpoint answered
PROBE_OK == Str(<<"ok">>)
PROBE_REJECTED == Str(<<"rejected">>)

\* the SDK is configured whatever the probe answers
ConfigureGenai_NoVerify(api_key, net) ==
    LET key_to_use == IF Truthy(api_key) THEN api_key ELSE GOOGLE_API_KEY
        probed == Truthy(key_to_use)
    IN  [key |-> key_to_use, probed |-> probed, ok |-> probed]

\* configure_genai: the key it would use, and whether it configured the SDK
ConfigureGenai(api_key, net) ==
    LET key_to_use == IF Truthy(api_key) THEN api_key ELSE GOOGLE_API_KEY
        probed == Truthy(key_to_use)
    IN  [key |-> key_to_use, probed |-> probed,
         ok |-> probed /\ VerifyGoogleApiKey(key_to_use, net)]

\* the events and the SDK state that configure_genai(api_key) leaves behind
Configure(c) ==
    /\ trace' = IF c.probed
                THEN Append(trace, Event("probe", frame.fn, c.key,
                                         IF VerifyGoogleApiKey(c.key, env.net)
                                         THEN PROBE_OK ELSE PROBE_REJECTED))
                ELSE trace
    /\ genaiKey' = IF c.ok THEN c.key ELSE genaiKey

\* ------------------------------------------------------------------------
\* llm_inference.generate_sql_from_query
\* ------------------------------------------------------------------------
SynthConfigure ==
    /\ pc = "s_config"
    /\ IF ~Truthy(frame.api_key)
       THEN /\ Finish(Return(None))
            /\ UNCHANGED <<trace, genaiKey>>
       ELSE LET c == ConfigureGenai(frame.api_key, env.net)
            IN  /\ Configure(c)
                /\ IF c.ok
                   THEN pc' = "s_generate" /\ UNCHANGED retval
                   ELSE Finish(Return(None))
    /\ UNCHANGED <<top, args, env, proc, frame, result, openConns, db, csv, ing, sessions>>

\* the cleaned text is returned without the SELECT check
SqlFromResponse_NoGate(stub) ==
    IF stub.raises THEN None
    ELSE IF stub.text = <<>> THEN None
    ELSE Str(CleanSql(stub.text))

\* the value generate_sql_from_query makes of the oracle's answer
SqlFromResponse(stub) ==
    IF stub.raises THEN None
    ELSE IF stub.text = <<>> THEN None
    ELSE LET sql_query == CleanSql(stub.text)
         IN  IF ~HasSelect(sql_query) THEN None ELSE Str(sql_query)

\* every question is let through
InvalidUserQuery_Never(user_query) == FALSE

\* not user_query or not isinstance(user_query, str)
InvalidUserQuery(user_query) == ~Truthy(user_query) \/ ~IsStr(user_query)

SynthGenerate ==
    /\ pc = "s_generate"
    /\ IF InvalidUserQuery(frame.user_query)
       THEN /\ Finish(Return(None))
            /\ UNCHANGED trace
       ELSE /\ trace' = Append(trace, Event("generate", "synthesize", genaiKey, None))
            /\ Finish(Return(SqlFromResponse(env.sql)))
    /\ UNCHANGED <<top, args, env, proc, frame, result, genaiKey, openConns, db, csv, ing, sessions>>

\* ------------------------------------------------------------------------
\* db_handler.execute_sql_query
\* ------------------------------------------------------------------------
\* SELECT is looked for without folding the case
ValidQuery_CaseSensitive(sql_query) ==
    Truthy(sql_query) /\ IsStr(sql_query) /\ Contains(sql_query.v, SELECT)

\* the input check of execute_sql_query
ValidQuery(sql_query) ==
    Truthy(sql_query) /\ IsStr(sql_query) /\ HasSelect(sql_query.v)

ExecValidate ==
    /\ pc = "x_validate"
    /\ IF ValidQuery(frame.sql_query)
       THEN pc' = "x_connect" /\ UNCHANGED retval
       ELSE Finish(Return(DF(EmptyDF)))
    /\ UNCHANGED <<top, args, env, proc, frame, result, genaiKey, openConns, trace, db, csv, ing, sessions>>

\* get_db_connection: is the returned connection not None
GetDbConnection(store) == store.exists /\ store.connects

ExecConnect ==
    /\ pc = "x_connect"
    /\ IF GetDbConnection(env.store)
       THEN /\ openConns' = openConns + 1
            /\ frame' = [frame EXCEPT !.conn = TRUE]
            /\ pc' = "x_query"
            /\ UNCHANGED retval
       ELSE /\ Finish(Return(DF(EmptyDF)))
            /\ UNCHANGED <<openConns, frame>>
    /\ UNCHANGED <<top, args, env, proc, result, genaiKey, trace, db, csv, ing, sessions>>

\* isinstance(exc, cls) for the exception classes of the model
IsInstance(exc, cls) == cls = exc \/ cls = "Exception"

\* ------------------------------------------------------------------------
\* The statements the store engine is given by pd.read_sql_query
\* ------------------------------------------------------------------------
FROM_MAIN == " * FROM peoplesay p"
JOIN_SUBTOPICS == " JOIN subtopics_table s ON p.entry_id = s.entry_id"
GROUP_BY == " GROUP BY p.entry_id"
DROP == <<"D", "R", "O", "P">>
DELETE == <<"D", "E", "L", "E", "T", "E">>
TABLE_MAIN == " TABLE peoplesay"
COMMENT_SELECT == <<" ", "-", "-", " ", "s", "e", "l", "e", "c", "t">>
Q_ALL == SELECT \o <<FROM_MAIN>>
Q_JOIN == SELECT \o <<FROM_MAIN, JOIN_SUBTOPICS>>
Q_JOIN_GROUPED == SELECT \o <<FROM_MAIN, JOIN_SUBTOPICS, GROUP_BY>>
Q_DROP == DROP \o <<TABLE_MAIN>> \o COMMENT_SELECT
Q_DELETE == DELETE \o <<" FROM peoplesay">> \o COMMENT_SELECT
StoreQueries == {Q_ALL, Q_JOIN, Q_JOIN_GROUPED, Q_DROP, Q_DELETE, DROP \o <<TABLE_MAIN>>}

StartsWith(s, prefix) == Len(s) >= Len(prefix) /\ SubSeq(s, 1, Len(prefix)) = prefix
Mentions(s, chunk) == \E i \in DOMAIN s : s[i] = chunk

\* the statements of the model the engine runs itself; for any other text
\* the store stub answers
Understood(q) ==
    /\ IsStr(q)
    /\ \/ StartsWith(q.v, SELECT) /\ Mentions(q.v, FROM_MAIN)
       \/ StartsWith(q.v, DROP) /\ Mentions(q.v, TABLE_MAIN)
       \/ StartsWith(q.v, DELETE)

\* the tables a statement reads
TablesRead(q) ==
    {MAIN_TABLE} \cup (IF Mentions(q.v, JOIN_SUBTOPICS) THEN {"subtopics_table"} ELSE {})

\* the entry_id of each row a SELECT returns: one per entity; with a join,
\* one per matching link row; with a join and GROUP BY, one per entity that
\* has a matching link row
SelectIds(d, q) ==
    LET ids == d.tables[MAIN_TABLE].rows
        links == d.tables["subtopics_table"].rows
        matches(e) == SelectSeq(links, LAMBDA r : r[1] = e)
    IN  IF ~Mentions(q.v, JOIN_SUBTOPICS) THEN ids
        ELSE IF Mentions(q.v, GROUP_BY)
        THEN SelectSeq(ids, LAMBDA e : matches(e) # <<>>)
        ELSE Flatten([i \in DOMAIN ids |-> [j \in DOMAIN matches(ids[i]) |-> ids[i]]])

\* what pd.read_sql_query(sql_query, conn) gives on store content d: the
\* stub's answer, or for a statement of the model its rows, or the exception
\* (a missing table; no result set to read for a statement that is no SELECT)
RunQuery(store, d, q) ==
    IF store.exc # "none" \/ ~Understood(q) THEN store
    ELSE IF StartsWith(q.v, SELECT)
    THEN IF \E t \in TablesRead(q) : ~d.tables[t].present
         THEN [store EXCEPT !.exc = "DatabaseError"]
         ELSE [store EXCEPT !.df = MkDF(FULL_COLUMNS, SelectIds(d, q))]
    ELSE IF ~d.tables[MAIN_TABLE].present
    THEN [store EXCEPT !.exc = "DatabaseError"]
    ELSE [store EXCEPT !.exc = "TypeError"]

\* what the statement leaves in the store once the connection is closed:
\* the connection is opened read-write; a DROP runs outside any transaction
\* and takes effect; a DELETE runs in a transaction that is never committed
StoreAfter(store, d, q) ==
    IF /\ store.exc = "none" /\ Understood(q)
       /\ StartsWith(q.v, DROP) /\ d.tables[MAIN_TABLE].present
    THEN [d EXCEPT !.tables[MAIN_TABLE] = NoTable]
    ELSE d

\* the except clauses without the catch-all
EXEC_HANDLERS_NoCatchAll == {"DatabaseError", "sqlite3.Error"}

\* the except clauses of execute_sql_query
EXEC_HANDLERS == {"DatabaseError", "sqlite3.Error", "Exception"}

\* the outcome of the try block of execute_sql_query, before finally
QueryOutcome(store) ==
    IF store.exc = "none" THEN Return(DF(store.df))
    ELSE IF \E h \in EXEC_HANDLERS : IsInstance(store.exc, h) THEN Return(DF(EmptyDF))
    ELSE Raise(store.exc)

ExecQuery ==
    /\ pc = "x_query"
    /\ frame' = [frame EXCEPT !.pending = QueryOutcome(RunQuery(env.store, db, frame.sql_query))]
    /\ db' = StoreAfter(env.store, db, frame.sql_query)
    /\ pc' = "x_finally"
    /\ UNCHANGED <<top, args, env, proc, retval, result, genaiKey, openConns, trace, csv, ing, sessions>>

\* the connection is closed at the end of the try block instead of in finally
ClosesConnection_OnSuccessOnly(f) == f.conn /\ f.pending # Return(DF(EmptyDF))

\* the finally clause: does it close the connection
ClosesConnection(f) == f.conn

ExecFinally ==
    /\ pc = "x_finally"
    /\ openConns' = IF ClosesConnection(frame) THEN openConns - 1 ELSE openConns
    /\ Finish(frame.pending)
    /\ UNCHANGED <<top, args, env, proc, frame, result, genaiKey, trace, db, csv, ing, sessions>>

\* ------------------------------------------------------------------------
\* llm_inference.generate_summary_from_data
\* ------------------------------------------------------------------------
SummConfigure ==
    /\ pc = "m_config"
    /\ IF ~Truthy(frame.api_key)
       THEN /\ Finish(Return(Tuple(<<MSG_NO_KEY, None>>)))
            /\ UNCHANGED <<trace, genaiKey>>
       ELSE LET c == ConfigureGenai(frame.api_key, env.net)
            IN  /\ Configure(c)
                /\ IF c.ok
                   THEN pc' = "m_generate" /\ UNCHANGED retval
                   ELSE Finish(Return(Tuple(<<MSG_BAD_KEY, None>>)))
    /\ UNCHANGED <<top, args, env, proc, frame, result, openConns, db, csv, ing, sessions>>

\* the template is looked up without a default
SelectTemplate_NoDefault(template_key) == template_key

\* prompts.SUMMARY_TEMPLATES.get(template_key, prompts.DEFAULT_SUMMARY_TEMPLATE)
SelectTemplate(template_key) ==
    IF template_key \in SUMMARY_TEMPLATES THEN template_key ELSE DEFAULT_SUMMARY_TEMPLATE

\* the pair generate_summary_from_data makes of the oracle's answer
SummaryFromResponse(stub, sources_list) ==
    IF stub.raises THEN Tuple(<<MsgSummaryError("oracle error"), None>>)
    ELSE IF stub.text = <<>> THEN Tuple(<<MSG_EMPTY_SUMMARY, List(sources_list)>>)
    ELSE Tuple(<<Str(Strip(stub.text)), List(sources_list)>>)

SummGenerate ==
    /\ pc = "m_generate"
    /\ LET df == frame.df
           missing == MissingColumns(df)
           sources_list == RowDicts(df)
       IN  IF DfEmpty(df)
           THEN Finish(Return(Tuple(<<MSG_NO_ROWS, List(<<>>)>>))) /\ UNCHANGED trace
           ELSE IF missing # <<>>
           THEN Finish(Return(Tuple(<<MsgMissing(missing), None>>))) /\ UNCHANGED trace
           ELSE IF sources_list = <<>>
           THEN Finish(Return(Tuple(<<MSG_NOT_PREPARED, None>>))) /\ UNCHANGED trace
           ELSE /\ trace' = Append(trace, Event("generate", "summarize", genaiKey,
                                                SelectTemplate(frame.template_key)))
                /\ Finish(Return(SummaryFromResponse(env.summary, sources_list)))
    /\ UNCHANGED <<top, args, env, proc, frame, result, genaiKey, openConns, db, csv, ing, sessions>>

\* ------------------------------------------------------------------------
\* core_logic.process_query
\* ------------------------------------------------------------------------
\* def process_query(user_query): the parameters a call can bind
PROCESS_PARAMS == {"user_query"}

\* binding the caller's arguments: a keyword that is not a parameter is a
\* TypeError, raised before the body runs
BindProcess(a) ==
    IF a.kwargs \subseteq PROCESS_PARAMS
    THEN Return(a.question)
    ELSE Raise("TypeError")

\* the configured key is taken for the credential when none is passed
SynthCall_Ambient(a, locals) == SynthFrame(locals.user_query, genaiKey)

\* llm_inference.generate_sql_from_query(user_query)
SynthCall(a, locals) == SynthFrame(locals.user_query, None)

\* db_handler.execute_sql_query(sql_query)
ExecCall(a, locals) == ExecFrame(locals.sql_query)

\* llm_inference.generate_summary_from_data(user_query, retrieved_data_df)
SummCall(a, locals, df) == SummFrame(locals.user_query, df, THEMATIC, None)

Done(out) == [done |-> TRUE, result |-> out, frame |-> NoFrame, sql_query |-> None]
Enter(f, sql_query) == [done |-> FALSE, result |-> NoResult, frame |-> f, sql_query |-> sql_query]

\* what process_query does with its own result triple
Triple(summary, sources, sql_query) == Return(Tuple(<<summary, sources, sql_query>>))

\* the early return on a failed synthesis is missing
AfterSynthesize_NoCheck(a, locals, sql_query) ==
    Enter(ExecCall(a, [locals EXCEPT !.sql_query = sql_query]), sql_query)

\* process_query after generate_sql_from_query returned sql_query
AfterSynthesize(a, locals, sql_query) ==
    IF ~Truthy(sql_query)
    THEN Done(Triple(MSG_NO_QUERY, List(<<>>), None))
    ELSE Enter(ExecCall(a, [locals EXCEPT !.sql_query = sql_query]), sql_query)

\* process_query after execute_sql_query returned retrieved_data_df
AfterExecute(a, locals, df) ==
    IF DfEmpty(df)
    THEN Done(Triple(MSG_NO_DATA, List(<<>>), locals.sql_query))
    ELSE Enter(SummCall(a, locals, df), locals.sql_query)

\* process_query after generate_summary_from_data returned (summary, sources)
AfterSummarize(a, locals, summary, sources) ==
    IF summary = None /\ sources = None
    THEN Done(Triple(MSG_NO_SUMMARY, List(<<>>), locals.sql_query))
    ELSE IF sources = None
    THEN Done(Triple(summary, List(<<>>), locals.sql_query))
    ELSE Done(Triple(summary, sources, locals.sql_query))

\* process_query has no try block: an exception of a stage goes to the caller
ProcessStep(fn, a, locals, out) ==
    IF out.kind = "raise" THEN Done(out)
    ELSE CASE fn = "synthesize" -> AfterSynthesize(a, locals, out.val)
           [] fn = "execute" -> AfterExecute(a, locals, out.val.v)
           [] fn = "summarize" -> AfterSummarize(a, locals, out.val.v[1], out.val.v[2])

EnterStage(f, tr) ==
    /\ frame' = f
    /\ pc' = EntryPc(f.fn)
    /\ trace' = Append(tr, CallEvent(f))

\* entry of process_query, up to its first call
ProcessEnter ==
    /\ pc = "p_bind"
    /\ LET b == BindProcess(args)
       IN  IF b.kind = "raise"
           THEN /\ result' = b
                /\ pc' = "done"
                /\ UNCHANGED <<proc, frame, trace>>
           ELSE /\ proc' = [NoProc EXCEPT !.user_query = b.val]
                /\ EnterStage(SynthCall(args, proc'), trace)
                /\ UNCHANGED result
    /\ UNCHANGED <<top, args, env, retval, genaiKey, openConns, db, csv, ing, sessions>>

\* a stage function hands its outcome to whoever called it: the caller of
\* the invocation, or process_query, which runs up to its next call or return
StageReturn ==
    /\ pc = "ret"
    /\ LET tr == Append(trace, ReturnEvent(frame, retval))
       IN  IF top # "process"
           THEN /\ result' = retval
                /\ pc' = "done"
                /\ trace' = tr
                /\ UNCHANGED <<proc, frame>>
           ELSE LET step == ProcessStep(frame.fn, args, proc, retval)
                IN  IF step.done
                    THEN /\ result' = step.result
                         /\ pc' = "done"
                         /\ trace' = tr
                         /\ UNCHANGED <<proc, frame>>
                    ELSE /\ proc' = [proc EXCEPT !.sql_query = step.sql_query]
                         /\ EnterStage(step.frame, tr)
                         /\ UNCHANGED result
    /\ UNCHANGED <<top, args, env, retval, genaiKey, openConns, db, csv, ing, sessions>>

\* ------------------------------------------------------------------------
\* database_init.initialize_database
\* ------------------------------------------------------------------------
\* initialize_database(force_rebuild=False)
CallInitialize ==
    /\ pc = "idle"
    /\ \E force \in BOOLEAN :
        ing' = [force_rebuild |-> force, i |-> 0, before |-> db]
    /\ top' = "initialize"
    /\ pc' = "i_check"
    /\ UNCHANGED <<args, env, proc, frame, retval, result, genaiKey, openConns, trace, db, csv, sessions>>

\* initialize_database returns b to its caller
InitReturn(b) ==
    /\ result' = Return(Bool(b))
    /\ pc' = "done"

\* an existing store is never rebuilt
SkipsRebuild_IgnoresForce(locals, d) == d.file

\* the store is there and rebuilding is not forced
SkipsRebuild(locals, d) == ~locals.force_rebuild /\ d.file

\* the two checks before the try block
InitCheck ==
    /\ pc = "i_check"
    /\ IF SkipsRebuild(ing, db) THEN InitReturn(TRUE)
       ELSE IF IsNa(csv) THEN InitReturn(FALSE)
       ELSE pc' = "i_read" /\ UNCHANGED result
    /\ UNCHANGED <<top, args, env, proc, frame, retval, genaiKey, openConns, trace, db, csv, ing, sessions>>

\* reading the source file and splitting its columns; any exception is
\* caught by the except clause, which returns False
InitRead ==
    /\ pc = "i_read"
    /\ \/ InitReturn(FALSE)
       \/ /\ ~StrAccessorFails(csv.v)
          /\ pc' = "i_main"
          /\ UNCHANGED result
    /\ UNCHANGED <<top, args, env, proc, frame, retval, genaiKey, openConns, trace, db, csv, ing, sessions>>

\* df_main.to_sql('peoplesay', if_exists='replace'), or an exception
InitMain ==
    /\ pc = "i_main"
    /\ \/ InitReturn(FALSE) /\ UNCHANGED <<db, ing>>
       \/ /\ db' = ToSql(db, MAIN_TABLE, MainRows(csv.v))
          /\ ing' = [ing EXCEPT !.i = 1]
          /\ pc' = "i_link"
          /\ UNCHANGED result
    /\ UNCHANGED <<top, args, env, proc, frame, retval, genaiKey, openConns, trace, csv, sessions>>

\* one turn of the loop over the link tables, or an exception; after the
\* last table initialize_database returns True
InitLink ==
    /\ pc = "i_link"
    /\ \/ InitReturn(FALSE) /\ UNCHANGED <<db, ing>>
       \/ /\ db' = ToSql(db, LINK_TABLES[ing.i].table, AuxRows(csv.v, LINK_TABLES[ing.i]))
          /\ ing' = [ing EXCEPT !.i = ing.i + 1]
          /\ IF ing.i = Len(LINK_TABLES)
             THEN InitReturn(TRUE)
             ELSE UNCHANGED <<pc, result>>
    /\ UNCHANGED <<top, args, env, proc, frame, retval, genaiKey, openConns, trace, csv, sessions>>

\* db_handler.execute_sql_query on the store as it is
CallExecuteOnStore ==
    /\ pc = "idle"
    /\ \E q \in StoreQueries, connects \in BOOLEAN, exc \in {"none", "sqlite3.Error"} :
        Invoke("execute",
               [NoArgs EXCEPT !.query = Str(q)],
               [NoEnv EXCEPT !.store = StoreStub(db.file, connects, exc, EmptyDF)],
               ExecFrame(Str(q)))

Next ==
    \/ CallProcess
    \/ CallProcessFromApp
    \/ CallSynthesize
    \/ CallExecute
    \/ CallSummarize
    \/ ProcessEnter
    \/ SynthConfigure
    \/ SynthGenerate
    \/ ExecValidate
    \/ ExecConnect
    \/ ExecQuery
    \/ ExecFinally
    \/ SummConfigure
    \/ SummGenerate
    \/ StageReturn
    \/ Reset

Spec == Init /\ [][Next]_vars

\* ------------------------------------------------------------------------
\* Repeated invocations, and sessions that share the server process
\* ------------------------------------------------------------------------
ROW_1 == MkDF(FULL_COLUMNS, <<1>>)
SUMMARY_TEXT == <<"Access is hard [Title 1]">>
\* a few stubs, enough to take every path of the stages
FewEnvs ==
    {Env(n, q, StoreStub(TRUE, TRUE, "none", d), m) :
        n \in Networks,
        q \in {OracleStub(FALSE, SQL_UPPER), OracleStub(TRUE, <<>>)},
        d \in {ROW_1, EmptyDF},
        m \in {OracleStub(FALSE, SUMMARY_TEXT), OracleStub(FALSE, <<>>)}}

\* process_query called as declared, or as app.py calls it
CallProcessAgain ==
    /\ pc = "idle"
    /\ \E e \in FewEnvs, fromApp \in BOOLEAN :
        Invoke("process",
               IF fromApp
               THEN [NoArgs EXCEPT !.question = QUESTION, !.mode = THEMATIC,
                                   !.api_key = VALID_KEY,
                                   !.kwargs = {"template_key", "api_key"}]
               ELSE [NoArgs EXCEPT !.question = QUESTION],
               e, NoFrame)

\* one call of a stage function
CallStageOnce ==
    /\ pc = "idle"
    /\ \E e \in FewEnvs, k \in {VALID_KEY, REVOKED_KEY} :
        \/ Invoke("synthesize", [NoArgs EXCEPT !.question = QUESTION, !.api_key = k],
                  e, SynthFrame(QUESTION, k))
        \/ Invoke("execute", [NoArgs EXCEPT !.query = Str(SQL_UPPER)],
                  e, ExecFrame(Str(SQL_UPPER)))
        \/ Invoke("summarize",
                  [NoArgs EXCEPT !.question = QUESTION, !.df = ROW_1, !.mode = THEMATIC,
                                 !.api_key = k],
                  e, SummFrame(QUESTION, ROW_1, THEMATIC, k))

\* the inputs and the outcome of a finished process invocation are kept, to
\* compare a later invocation with
Remember ==
    /\ pc = "done"
    /\ top = "process"
    /\ prev' = [set |-> TRUE, args |-> args, env |-> env, result |-> result]
    /\ UNCHANGED <<top, pc, args, env, proc, frame, retval, result, genaiKey, openConns,
                   trace, db, csv, ing, peer>>

NextReplay ==
    \/ CallProcessAgain
    \/ CallStageOnce
    \/ ProcessEnter
    \/ SynthConfigure
    \/ SynthGenerate
    \/ ExecValidate
    \/ ExecConnect
    \/ ExecQuery
    \/ ExecFinally
    \/ SummConfigure
    \/ SummGenerate
    \/ StageReturn
    \/ Remember
    \/ Reset

SpecReplay == Init /\ [][NextReplay]_vars

\* another session enters its key: app.py calls configure_genai(api_key=...)
\* on the script thread of that session, in the same process
PeerConfigure ==
    /\ peer.pc = "idle"
    /\ LET c == ConfigureGenai(PEER_KEY, "up")
       IN  /\ c.ok
           /\ genaiKey' = c.key
           /\ peer' = [pc |-> "configured", key |-> PEER_KEY, used |-> None]
    /\ UNCHANGED <<top, pc, args, env, proc, frame, retval, result, openConns, trace,
                   db, csv, ing, prev>>

\* that session's generation call: made with the key the SDK holds then
PeerGenerate ==
    /\ peer.pc = "configured"
    /\ peer' = [peer EXCEPT !.pc = "idle", !.used = genaiKey]
    /\ UNCHANGED <<top, pc, args, env, proc, frame, retval, result, genaiKey, openConns,
                   trace, db, csv, ing, prev>>

NextSessions ==
    \/ CallStageOnce
    \/ SynthConfigure
    \/ SynthGenerate
    \/ ExecValidate
    \/ ExecConnect
    \/ ExecQuery
    \/ ExecFinally
    \/ SummConfigure
    \/ SummGenerate
    \/ StageReturn
    \/ Reset
    \/ PeerConfigure
    \/ PeerGenerate

SpecSessions == Init /\ [][NextSessions]_vars

\* the store and its ingestion: the source file is any of CsvFiles
InitStore ==
    /\ top = "none"
    /\ pc = "idle"
    /\ args = NoArgs
    /\ env = NoEnv
    /\ proc = NoProc
    /\ frame = NoFrame
    /\ retval = NoResult
    /\ result = NoResult
    /\ genaiKey = None
    /\ openConns = 0
    /\ trace = <<>>
    /\ db = NoStore
    /\ csv \in CsvFiles
    /\ ing = NoIng
    /\ prev = NoPrev
    /\ peer = NoPeer

NextStore ==
    \/ CallInitialize
    \/ InitCheck
    \/ InitRead
    \/ InitMain
    \/ InitLink
    \/ CallExecuteOnStore
    \/ ExecValidate
    \/ ExecConnect
    \/ ExecQuery
    \/ ExecFinally
    \/ StageReturn
    \/ Reset

SpecStore == InitStore /\ [][NextStore]_vars

\* ------------------------------------------------------------------------
\* Properties
\* ------------------------------------------------------------------------
Events(ev, fn) == {i \in DOMAIN trace : trace[i].ev = ev /\ trace[i].fn = fn}
Called(fn) == Events("call", fn) # {}
ProcessDone == top = "process" /\ pc = "done"
StageDone(fn) == top = fn /\ pc = "done"

\* what the stubs of the invocation answer
GoodQuestion(q) == IsStr(q) /\ Truthy(q)
CredentialOK(k, e) == Truthy(k) /\ k \in ValidKeys /\ e.net = "up"
OracleGivesSelect(e) == ~e.sql.raises /\ HasSelect(e.sql.text)
StoreGivesRows(e) ==
    /\ e.store.exists /\ e.store.connects /\ e.store.exc = "none"
    /\ e.store.df.n >= 1
    /\ \A i \in DOMAIN REQUIRED_COLUMNS : REQUIRED_COLUMNS[i] \in e.store.df.columns
StoreGivesNothing(e) ==
    \/ ~e.store.exists \/ ~e.store.connects \/ e.store.exc # "none"
    \/ e.store.df.n = 0
OracleGivesSummary(e) == ~e.summary.raises /\ Strip(e.summary.text) # <<>>

\* C1: success path of process: called with a non-empty question, a mode and
\* a valid credential, with an oracle that answers with a text containing
\* SELECT and then with a non-empty summary, and a store that answers with
\* n >= 1 rows carrying the required fields, process returns (that summary,
\* a sources list of exactly n rows, the generated query text).
C1_SuccessPath ==
    ( /\ ProcessDone
      /\ GoodQuestion(args.question)
      /\ args.mode \in SUMMARY_TEMPLATES
      /\ CredentialOK(args.api_key, env)
      /\ OracleGivesSelect(env)
      /\ StoreGivesRows(env)
      /\ OracleGivesSummary(env) )
    => /\ result.kind = "return"
       /\ result.val.v[1] = Str(Strip(env.summary.text))
       /\ result.val.v[2].t = "list"
       /\ Len(result.val.v[2].v) = env.store.df.n
       /\ result.val.v[3] = Str(CleanSql(env.sql.text))

\* C2: when synthesis succeeds and the executor returns an empty result set,
\* process returns exactly ("No data found matching your query.", [], q), q
\* the query text the synthesizer made, and the summarizer is not invoked.
C2_NoDataTriple ==
    ( /\ ProcessDone
      /\ GoodQuestion(args.question)
      /\ CredentialOK(args.api_key, env)
      /\ OracleGivesSelect(env)
      /\ StoreGivesNothing(env) )
    => /\ result = Triple(MSG_NO_DATA, List(<<>>), Str(CleanSql(env.sql.text)))
       /\ ~Called("summarize")

SynthesisFailed == \E i \in Events("return", "synthesize") : ~Truthy(trace[i].info)

\* C3: when the synthesizer fails inside process, process returns exactly
\* ("Error: Could not generate the database query.", [], None) and neither
\* the executor nor the summarizer is invoked in that invocation.
C3_SynthesisFailure ==
    (top = "process" /\ SynthesisFailed)
    => /\ pc = "done"
       /\ result = Triple(MSG_NO_QUERY, List(<<>>), None)
       /\ ~Called("execute")
       /\ ~Called("summarize")

C3_Witness ==
    /\ ProcessDone
    /\ SynthesisFailed
    /\ GoodQuestion(args.question)
    /\ result = Triple(MSG_NO_QUERY, List(<<>>), None)

\* C4: process takes (question, mode, credential) and threads them through:
\* the synthesizer call and the summarizer call receive the credential given
\* to process, and the summarizer receives the mode given to process.
C4_ThreadsCredentialAndMode ==
    (ProcessDone /\ args.kwargs # {})
    => /\ \E i \in Events("call", "synthesize") : trace[i].key = args.api_key
       /\ \A i \in Events("call", "summarize") :
            trace[i].key = args.api_key /\ trace[i].info = args.mode

ValidRows(d) ==
    d.n >= 1 /\ \A i \in DOMAIN REQUIRED_COLUMNS : REQUIRED_COLUMNS[i] \in d.columns

\* the second component of the pair is the list of the rows of d, in order
GroundsOn(pair, d) ==
    /\ pair.v[2].t = "list"
    /\ Len(pair.v[2].v) = d.n
    /\ \A i \in 1..d.n :
         /\ DOMAIN pair.v[2].v[i] = d.columns
         /\ \A c \in d.columns : pair.v[2].v[i][c] = d.data[c][i]

\* C6 as claimed: for every non-empty result set with the three required
\* fields, summarize returns a grounding set that has one element per row,
\* the i-th being the i-th row, whatever the oracle does.
C6_GroundingWhateverTheOracle ==
    (StageDone("summarize") /\ ValidRows(args.df))
    => result.kind = "return" /\ GroundsOn(result.val, args.df)

\* C6 as amended: for every non-empty result set with the three required
\* fields, a credential that is present and passes the probe, and an oracle
\* call that returns (text or empty text), summarize returns a grounding set
\* that has one element per row, the i-th being the i-th row; on an oracle
\* call error, a missing credential or a failed probe it returns no
\* grounding set.
C6_GroundingWhenOracleReturns ==
    (StageDone("summarize") /\ ValidRows(args.df))
    => /\ result.kind = "return"
       /\ IF CredentialOK(args.api_key, env) /\ ~env.summary.raises
          THEN GroundsOn(result.val, args.df)
          ELSE result.val.v[2] = None

C6_Witness ==
    /\ StageDone("summarize")
    /\ ValidRows(args.df)
    /\ args.df.n = MaxRows
    /\ args.df.data["entry_id"][1] # Cell(1, "entry_id")
    /\ env.summary.text = <<>>
    /\ GroundsOn(result.val, args.df)

\* C7: SELECT gate: every query synthesize returns contains SELECT, case
\* ignored; whenever the post-processed oracle text does not contain it,
\* synthesize returns None.
C7_SelectGate ==
    StageDone("synthesize")
    => /\ result.kind = "return"
       /\ result.val # None => IsStr(result.val) /\ HasSelect(result.val.v)
       /\ ( /\ Events("generate", "synthesize") # {}
            /\ ~env.sql.raises
            /\ ~HasSelect(CleanSql(env.sql.text)) )
          => result.val = None

C7_Witness ==
    /\ StageDone("synthesize")
    /\ result.val # None
    /\ ~Contains(result.val.v, SELECT)
    /\ Contains(env.sql.text, FENCE)

\* C8: execute never raises and always returns a result set: for a malformed
\* query (empty, not a string, or without SELECT), a missing store file, a
\* connection error or an execution error, the result set is empty.
C8_ExecuteAlwaysReturns ==
    StageDone("execute")
    => /\ result.kind = "return"
       /\ result.val.t = "df"
       /\ ( \/ ~IsStr(args.query)
            \/ ~HasSelect(args.query.v)
            \/ ~env.store.exists
            \/ ~env.store.connects
            \/ env.store.exc # "none" )
          => result.val = DF(EmptyDF)

C8_Witness ==
    /\ StageDone("execute")
    /\ env.store.exc = "ValueError"
    /\ Events("call", "execute") # {}
    /\ frame.conn
    /\ result = Return(DF(EmptyDF))

\* C9: guaranteed release: a store connection is open only between the
\* connect and the finally clause of one execute call; when an execute call
\* has returned, on the success path and on every failure path, no
\* connection is open.
C9_ConnectionReleased ==
    openConns = IF pc \in {"x_query", "x_finally"} THEN 1 ELSE 0

C9_Witness ==
    /\ pc = "ret"
    /\ frame.fn = "execute"
    /\ frame.conn
    /\ env.store.exc # "none"
    /\ openConns = 0

\* C10: no exception of any stage reaches the caller: synthesize, execute,
\* summarize and process each return a value, also when process is called
\* the way app.py calls it (question, template_key=..., api_key=...).
C10_NothingRaises ==
    pc = "done" => result.kind = "return"

\* ------------------------------------------------------------------------
\* Properties of the second group
\* ------------------------------------------------------------------------
\* the stages entered by this invocation, in order
StagesEntered ==
    LET calls == SelectSeq(trace, LAMBDA ev : ev.ev = "call")
    IN  [i \in 1..Len(calls) |-> calls[i].fn]

STAGE_ORDER == <<"synthesize", "execute", "summarize">>

\* C14: stage ordering: the stages a process invocation enters are a prefix
\* of SYNTHESIZE, EXECUTE, SUMMARIZE; EXECUTE is entered only after
\* SYNTHESIZE returned a query, SUMMARIZE only after EXECUTE returned a
\* non-empty result set; a stage issues at most one generation call.
C14_StageOrder ==
    /\ top = "process" =>
         /\ Len(StagesEntered) <= 3
         /\ StagesEntered = SubSeq(STAGE_ORDER, 1, Len(StagesEntered))
         /\ \A i \in Events("call", "execute") :
              \E j \in Events("return", "synthesize") :
                  j < i /\ IsStr(trace[j].info) /\ Truthy(trace[j].info)
         /\ \A i \in Events("call", "summarize") :
              \E j \in Events("return", "execute") :
                  j < i /\ trace[j].info.t = "df" /\ trace[j].info.v.n >= 1
    /\ Cardinality(Events("generate", "synthesize")) <= 1
    /\ Cardinality(Events("generate", "summarize")) <= 1

C14_Witness ==
    /\ ProcessDone
    /\ StagesEntered = <<"synthesize">>
    /\ trace[Len(trace)].ev = "return"
    /\ trace[Len(trace)].info = None

\* C17: mode selection: each of the four modes selects its own template,
\* every other mode selects the Thematic template, and an invocation with
\* an unrecognized mode reaches the generation call like any other.
C17_ModeSelection ==
    StageDone("summarize")
    => /\ \A i \in Events("generate", "summarize") :
            trace[i].info =
                IF args.mode \in {THEMATIC, NARRATIVE, DEMOGRAPHIC, POLICY}
                THEN args.mode ELSE THEMATIC
       /\ (CredentialOK(args.api_key, env) /\ ValidRows(args.df) /\ ~env.summary.raises)
          => /\ Events("generate", "summarize") # {}
             /\ GroundsOn(result.val, args.df)

C17_Witness ==
    /\ StageDone("summarize")
    /\ args.mode \notin {THEMATIC, NARRATIVE, DEMOGRAPHIC, POLICY}
    /\ \E i \in Events("generate", "summarize") : trace[i].info = THEMATIC
    /\ result.val.v[1] = Str(<<"Access is hard [Title 1]">>)

\* C18: probe before generation: a generation call of a synthesizer or
\* summarizer call is issued only after the probe of that same call
\* succeeded; with a missing credential or a failed probe none is issued.
C18_ProbeBeforeGeneration ==
    /\ \A i \in DOMAIN trace :
         trace[i].ev = "generate"
         => \E j \in 1..(i - 1) :
              /\ trace[j].ev = "probe"
              /\ trace[j].fn = trace[i].fn
              /\ trace[j].info = PROBE_OK
              /\ \A k \in (j + 1)..(i - 1) : trace[k].ev # "call"
    /\ (top \in {"synthesize", "summarize"} /\ ~CredentialOK(args.api_key, env))
       => \A i \in DOMAIN trace : trace[i].ev # "generate"

C18_Witness ==
    /\ StageDone("synthesize")
    /\ Events("generate", "synthesize") # {}
    /\ Events("probe", "synthesize") # {}
    /\ result.val # None

\* the pair generate_summary_from_data returns, from its inputs and the
\* answers of the probe and of the oracle
SummarizeReturns(api_key, net, df, stub) ==
    IF ~Truthy(api_key) THEN Tuple(<<MSG_NO_KEY, None>>)
    ELSE IF ~ConfigureGenai(api_key, net).ok THEN Tuple(<<MSG_BAD_KEY, None>>)
    ELSE IF DfEmpty(df) THEN Tuple(<<MSG_NO_ROWS, List(<<>>)>>)
    ELSE IF MissingColumns(df) # <<>> THEN Tuple(<<MsgMissing(MissingColumns(df)), None>>)
    ELSE IF RowDicts(df) = <<>> THEN Tuple(<<MSG_NOT_PREPARED, None>>)
    ELSE SummaryFromResponse(stub, RowDicts(df))

\* the store answers the query with at least one row
StoreAnswersRows(e) ==
    e.store.exists /\ e.store.connects /\ e.store.exc = "none" /\ e.store.df.n >= 1

\* C15: the summarizer's result is passed through verbatim: whenever the
\* inputs of a process invocation take it to SUMMARIZE (synthesis succeeds,
\* the store answers with rows), the (summary, sources) part of the triple
\* process returns is the pair summarize returns on those rows, for every
\* summarize outcome.
C15_SummaryPassedThrough ==
    ( /\ ProcessDone
      /\ GoodQuestion(args.question)
      /\ CredentialOK(args.api_key, env)
      /\ OracleGivesSelect(env)
      /\ StoreAnswersRows(env) )
    => /\ result.kind = "return"
       /\ Tuple(<<result.val.v[1], result.val.v[2]>>)
            = SummarizeReturns(args.api_key, env.net, env.store.df, env.summary)

\* with valid rows and an oracle that returns empty text, summarize returns
\* the fixed message with the grounding set computed from the rows
SummarizeKeepsGrounding ==
    ( /\ StageDone("summarize")
      /\ CredentialOK(args.api_key, env)
      /\ ValidRows(args.df)
      /\ ~env.summary.raises /\ env.summary.text = <<>> )
    => result = Return(Tuple(<<MSG_EMPTY_SUMMARY, List(RowDicts(args.df))>>))

\* C16: independent failure of grounding and summary: with valid rows and
\* an oracle that returns empty text, summarize returns the fixed message
\* with the full grounding set computed from the rows, and process returns
\* that message with the same non-empty sources and the query.
C16_IndependentFailure ==
    /\ SummarizeKeepsGrounding
    /\ ( /\ ProcessDone
         /\ GoodQuestion(args.question)
         /\ CredentialOK(args.api_key, env)
         /\ OracleGivesSelect(env)
         /\ StoreGivesRows(env)
         /\ ~env.summary.raises /\ env.summary.text = <<>> )
       => result = Triple(MSG_EMPTY_SUMMARY, List(RowDicts(env.store.df)),
                          Str(CleanSql(env.sql.text)))

\* initialize_database went through the whole rebuild and returned True
IngestionCompleted ==
    /\ top = "initialize" /\ pc = "done"
    /\ result = Return(Bool(TRUE))
    /\ ing.i = Len(LINK_TABLES) + 1

\* the rows of a link table that belong to entity e, in table order
LinkRowsOf(d, table, e) == SelectSeq(d.tables[table].rows, LAMBDA r : r[1] = e)

\* C20: ingestion split of subtopics: a source row whose subtopic cell holds
\* k comma-separated values (however padded) yields exactly k subtopic link
\* rows for that entity, the i-th holding the i-th value, trimmed; no
\* subtopic row is empty or padded; "Access to Care [5], Ageism [7]" yields
\* exactly the rows "Access to Care [5]" and "Ageism [7]".
C20_SubtopicSplit ==
    IngestionCompleted
    => /\ \A e \in DOMAIN csv.v :
            /\ \A v \in ValueLists, p \in Pads :
                 csv.v[e]["Subtopics [web]"] = Str(JoinPadded(v, p))
                 => LinkRowsOf(db, "subtopics_table", e)
                      = [i \in DOMAIN v |-> <<e, Str(<<v[i]>>)>>]
            /\ csv.v[e]["Subtopics [web]"]
                 = Str(<<"Access to Care [5]", ",", " ", "Ageism [7]">>)
               => LinkRowsOf(db, "subtopics_table", e)
                    = <<<<e, Str(<<"Access to Care [5]">>)>>, <<e, Str(<<"Ageism [7]">>)>>>>
       /\ \A i \in DOMAIN db.tables["subtopics_table"].rows :
            LET value == db.tables["subtopics_table"].rows[i][2]
            IN  IsStr(value) /\ value.v # <<>> /\ Strip(value.v) = value.v

C20_Witness ==
    /\ IngestionCompleted
    /\ \E e \in DOMAIN csv.v :
         /\ csv.v[e]["Subtopics [web]"]
              = Str(<<" ", "Access to Care [5]", " ", "\n", ",", " ", "Ageism [7]", " ", "\n">>)
         /\ Len(LinkRowsOf(db, "subtopics_table", e)) = 2

\* the query text passes the synthesizer's gate and the executor's validation
PassesValidation(q) ==
    /\ ValidQuery(q)
    /\ SqlFromResponse(OracleStub(FALSE, q.v)) = q

\* C11: the running system never mutates the store: for every query text
\* that passes the synthesizer's and the executor's validation, the content
\* of the entity table and of every link table after an execute call equals
\* the content before it.
C11_StoreNeverMutated ==
    [][(top = "execute" /\ PassesValidation(frame.sql_query)) => db' = db]_vars

\* no two rows of the result set have the same entry_id
OneRowPerEntity(d) ==
    \A i, j \in 1..d.n : d.data["entry_id"][i] = d.data["entry_id"][j] => i = j

\* C12: aggregation invariant: every structured query that is executed and
\* joins a link table yields a result set with at most one row per distinct
\* entry_id.
C12_AggregationInvariant ==
    ( /\ StageDone("execute")
      /\ PassesValidation(args.query)
      /\ Mentions(args.query.v, JOIN_SUBTOPICS)
      /\ result.kind = "return" /\ result.val.v.n >= 1 )
    => OneRowPerEntity(result.val.v)

\* C13: determinism of process: a process invocation with the question,
\* mode, credential, oracle answers and store of an earlier invocation
\* returns what that invocation returned, whatever was called in between.
C13_Deterministic ==
    (ProcessDone /\ prev.set /\ prev.args = args /\ prev.env = env)
    => result = prev.result

C13_Witness ==
    /\ ProcessDone
    /\ prev.set /\ prev.args = args /\ prev.env = env
    /\ genaiKey = VALID_KEY
    /\ result = Triple(MSG_NO_QUERY, List(<<>>), None)

\* C19: no credential race across concurrent invocations: every generation
\* call is made under the credential its own invocation supplied and
\* verified, never under the credential of another session.
C19_NoCredentialRace ==
    /\ top \in {"synthesize", "summarize"}
       => \A i \in DOMAIN trace :
            trace[i].ev = "generate" => trace[i].key = args.api_key
    /\ peer.used \in {None, peer.key}

\* ------------------------------------------------------------------------
\* Properties of the third group
\* ------------------------------------------------------------------------
\* the entry_id values of the entity table
EntityIds(d) == {d.tables[MAIN_TABLE].rows[i] : i \in DOMAIN d.tables[MAIN_TABLE].rows}

\* C21: store integrity after a completed ingestion: in each of the six
\* link tables every row's entry_id is the entry_id of an entity row, no
\* row holds a NULL attribute value, and an entity whose source cell is
\* empty (NaN) has no row in that attribute's link table.
C21_StoreIntegrity ==
    IngestionCompleted
    => \A k \in DOMAIN LINK_TABLES :
         LET table == db.tables[LINK_TABLES[k].table]
         IN  /\ table.present
             /\ \A i \in DOMAIN table.rows :
                  /\ table.rows[i][1] \in EntityIds(db)
                  /\ table.rows[i][2] # None
             /\ \A e \in DOMAIN csv.v :
                  csv.v[e][LINK_TABLES[k].source] = None
                  => LinkRowsOf(db, LINK_TABLES[k].table, e) = <<>>

C21_Witness ==
    /\ IngestionCompleted
    /\ Len(csv.v) = 2
    /\ csv.v[1]["Subtopics [web]"] = None
    /\ LinkRowsOf(db, "subtopics_table", 1) = <<>>
    /\ Len(LinkRowsOf(db, "subtopics_table", 2)) = 2
    /\ LinkRowsOf(db, "topics_table", 1) # <<>>

\* C22: synthesizer failure mapping: an empty question, a missing
\* credential, an invalid credential, an oracle call error, an empty oracle
\* response and a post-processed text without SELECT each make synthesize
\* return None; for an empty question or a missing credential no generation
\* call is issued.
C22_SynthesizerFailures ==
    StageDone("synthesize")
    => /\ ( \/ args.question \in {None, Str(<<>>)}
            \/ args.api_key \in {None, Str(<<>>)}
            \/ args.api_key \notin ValidKeys
            \/ env.net = "down"
            \/ env.sql.raises
            \/ env.sql.text = <<>>
            \/ ~HasSelect(CleanSql(env.sql.text)) )
          => result = Return(None)
       /\ (args.question \in {None, Str(<<>>)} \/ args.api_key \in {None, Str(<<>>)})
          => Events("generate", "synthesize") = {}

C22_Witness ==
    /\ StageDone("synthesize")
    /\ args.question = Str(<<>>)
    /\ CredentialOK(args.api_key, env)
    /\ HasSelect(env.sql.text)
    /\ Events("probe", "synthesize") # {}
    /\ result = Return(None)

\* the rows are there but lack a required field
LacksRequired(d) ==
    /\ d.n >= 1 /\ d.columns # {}
    /\ {"data_unit", "data_unit_title", "participant_name"} \ d.columns # {}

\* the pair is an internal-error message that names exactly the required
\* fields d lacks, with no grounding set
NamesMissing(pair, d) ==
    /\ pair.t = "tuple"
    /\ pair.v[2] = None
    /\ IsStr(pair.v[1])
    /\ pair.v[1].v[1] = "Internal Error: Data processing failed (missing columns: "
    /\ \A c \in {"data_unit", "data_unit_title", "participant_name"} :
         (\E i \in DOMAIN pair.v[1].v : pair.v[1].v[i] = c) <=> c \notin d.columns

FenceWrapped(text) ==
    LET t == Strip(text)
    IN  /\ Len(t) >= 6
        /\ SubSeq(t, 1, 3) = FENCE
        /\ SubSeq(t, Len(t) - 2, Len(t)) = FENCE

\* C24: code-fence stripping: for every oracle response that wraps the
\* query in a code fence, with or without a language tag, the query text
\* synthesize returns contains no fence marker and no leading or trailing
\* whitespace.
C24_FenceStripping ==
    ( /\ StageDone("synthesize")
      /\ result.kind = "return" /\ result.val # None
      /\ FenceWrapped(env.sql.text) )
    => /\ ~Contains(result.val.v, FENCE)
       /\ Strip(result.val.v) = result.val.v

InitializeDone == top = "initialize" /\ pc = "done"

\* C25: initialize_database rebuilds only when needed: with the store file
\* there and force_rebuild false it returns True and leaves the store as it
\* was; when it must rebuild and the source file is missing it returns
\* False and leaves the store as it was; with force_rebuild true and a
\* source file it goes through the rebuild even if the store is there (a
\* return of True then means every table was written anew).
C25_RebuildOnlyWhenNeeded ==
    InitializeDone
    => /\ (ing.before.file /\ ~ing.force_rebuild)
          => result = Return(Bool(TRUE)) /\ db = ing.before
       /\ ((~ing.before.file \/ ing.force_rebuild) /\ csv = None)
          => result = Return(Bool(FALSE)) /\ db = ing.before
       /\ (ing.force_rebuild /\ csv # None /\ result = Return(Bool(TRUE)))
          => /\ ing.i = Len(LINK_TABLES) + 1
             /\ \A t \in TABLES : db.tables[t].present
             /\ db.tables[MAIN_TABLE].rows = [i \in 1..Len(csv.v) |-> i]

C25_Witness ==
    /\ InitializeDone
    /\ ing.force_rebuild
    /\ ing.before.file
    /\ ~ing.before.tables[MAIN_TABLE].present
    /\ result = Return(Bool(TRUE))
    /\ db.tables[MAIN_TABLE].present

\* C29: after a completed ingestion every attribute value stored in any of
\* the six link tables is a non-empty string without leading or trailing
\* whitespace, for every comma-separated source value.
C29_AllLinkValuesTrimmed ==
    IngestionCompleted
    => \A k \in DOMAIN LINK_TABLES :
         \A i \in DOMAIN db.tables[LINK_TABLES[k].table].rows :
            LET value == db.tables[LINK_TABLES[k].table].rows[i][2]
            IN  IsStr(value) /\ value.v # <<>> /\ Strip(value.v) = value.v

\* the store holds exactly what a rebuild from the source rows writes
CompleteStore(d, rows) ==
    /\ d.file
    /\ d.tables[MAIN_TABLE] = Table(MainRows(rows))
    /\ \A k \in DOMAIN LINK_TABLES :
         d.tables[LINK_TABLES[k].table] = Table(AuxRows(rows, LINK_TABLES[k]))

\* C30: ingestion is all-or-nothing: when initialize_database returns False
\* the store holds either the complete prior content or the complete new
\* content, never a new entity table with prior or missing link tables.
C30_AllOrNothing ==
    (InitializeDone /\ result = Return(Bool(FALSE)))
    => \/ db = ing.before
       \/ csv # None /\ CompleteStore(db, csv.v)

\* the triple process returned is well shaped: sources is a list, the query
\* is None exactly when synthesis failed, and sources is non-empty only
\* when there is a query and the executor returned at least one row
WellShaped(triple) ==
    /\ triple.t = "tuple" /\ Len(triple.v) = 3
    /\ triple.v[2].t = "list"
    /\ (triple.v[3] = None) <=> SynthesisFailed
    /\ triple.v[2].v # <<>>
       => /\ triple.v[3] # None
          /\ \E i \in Events("return", "execute") : trace[i].info.v.n >= 1

\* whatever process returns is well shaped
ReturnedTripleWellShaped ==
    (ProcessDone /\ result.kind = "return") => WellShaped(result.val)

\* C26: shape of the result triple: in every outcome of process, sources is
\* a list and never None, the query component is None exactly when
\* synthesis failed, and sources is non-empty only when the query is not
\* None and the executor returned at least one row.
C26_TripleShape ==
    ProcessDone => (result.kind = "return" /\ WellShaped(result.val))

\* C27: whenever a non-empty sources list is returned (by summarize, and by
\* process, which hands on summarize's pair), the summary returned with it
\* is a non-empty string, for every oracle response.
C27_SummaryWithSources ==
    ( /\ pc = "done" /\ top \in {"process", "summarize"}
      /\ result.kind = "return"
      /\ result.val.v[2].t = "list" /\ result.val.v[2].v # <<>> )
    => IsStr(result.val.v[1]) /\ result.val.v[1].v # <<>>

\* C28: gate agreement between the stages: every query text synthesize
\* returns passes the executor's input validation, so inside the pipeline
\* the executor never returns empty because of its validation step.
C28_GateAgreement ==
    /\ (StageDone("synthesize") /\ result.kind = "return" /\ result.val # None)
       => ValidQuery(result.val)
    /\ (top = "process" /\ pc = "x_validate") => ValidQuery(frame.sql_query)
    /\ \A i \in Events("return", "synthesize") :
         trace[i].info # None => ValidQuery(trace[i].info)

C28_Witness ==
    /\ StageDone("synthesize")
    /\ result.val = Str(SQL_LOWER)
    /\ Contains(env.sql.text, FENCE)
    /\ ValidQuery(result.val)

====
